---- MODULE Spec2Model ----
(***************************************************************************)
(* WebcamStream (src/assistant.py): a frame slot refreshed by a background *)
(* capture thread and read by concurrent callers under one Lock.           *)
(*                                                                         *)
(* Callers are the threads that invoke start(), stop() and read(); Threads *)
(* are the Thread objects that start() creates to run update().  A step is *)
(* one access to the shared object; a statement that no other thread can   *)
(* observe on its own is folded into the step before it.                   *)
(***************************************************************************)
EXTENDS Integers, FiniteSets, Sequences, TLC

\* Bounds of the model
NCallers == 2
MaxThreads == 2
MaxFrames == 2

Callers == 1..NCallers
Threads == 1..MaxThreads

\* A frame is a pixel array (two pixels here); the capture source marks
\* every frame it delivers with the next marker.  None is what
\* VideoCapture.read() hands back as the image when the grab fails.
None == <<>>
Frame(m) == <<m, m>>
InitialMarker == 0
NoThread == 0

VARIABLES
    opened,     \* self.stream.isOpened(): VideoCapture(index=0) opened the camera
    frame,      \* self.frame
    running,    \* self.running
    lock,       \* self.lock: TRUE when held
    thread,     \* self.thread: a Thread id, NoThread while the attribute is unset
    nThreads,   \* number of Thread objects created so far
    captured,   \* number of frames the capture source has delivered
    tpc,        \* per Thread object: its position in update()
    tframe,     \* per Thread object: the local variable frame of update()
    pc,         \* per caller: its position in start()/stop()/read()
    cframe,     \* per caller: the local variable frame of read()
    cid,        \* per caller: which array object that local variable refers to
    ctarget,    \* per caller: the Thread object stop() is joining
    atAcq,      \* history: per caller in read(), lastDone when it took the lock
    lastDone,   \* history: frame of the last write whose lock was released
    writes,     \* history: markers stored by the capture loop, in write order
    quiesced,   \* history: a stop() has returned and no start() was called since
    last        \* history: outcome of the call that ended in the latest step

\* RealTimeScreenAnalyzer (src/main.py)
VARIABLES
    is_recording,   \* self.is_recording
    is_analyzing,   \* self.is_analyzing
    frame_buffer,   \* self.frame_buffer, a deque(maxlen=max_frames)
    frame_queue,    \* self.frame_queue, a queue.Queue()
    a_shots,        \* number of screenshots taken so far (their timestamps)
    cap_pc,         \* self.capture_thread: "none", or its position in _capture_frames
    cap_data,       \* the local variable frame_data of _capture_frames
    cap_slow,       \* the step the capture thread is in outlasts a join timeout
    an_pc,          \* self.analysis_thread: "none", or its position in _analyze_frames
    an_slow,        \* the step the analysis thread is in outlasts a join timeout
    m_pc            \* the main thread: its position in main()/start_analysis/stop_analysis

\* ScreenRecorder.extract_frame_at_minute (src/screen_recorder.py)
VARIABLES
    x_in,       \* the call's inputs: the video file and the minute
    x_pc,       \* position in extract_frame_at_minute
    x_cap,      \* the cv2.VideoCapture handle: "none", "closed", "open", "released"
    x_target,   \* target_frame
    x_pos,      \* the frame index that cap.read() decoded, -1 if none
    x_saved,    \* number of screenshots written
    x_result    \* what the call returned or raised

svars == <<opened, frame, running, lock, thread, nThreads, captured, tpc, tframe,
           pc, cframe, cid, ctarget, atAcq, lastDone, writes, quiesced, last>>
avars == <<is_recording, is_analyzing, frame_buffer, frame_queue, a_shots,
           cap_pc, cap_data, cap_slow, an_pc, an_slow, m_pc>>
xvars == <<x_in, x_pc, x_cap, x_target, x_pos, x_saved, x_result>>

vars == <<svars, avars, xvars>>

shared == <<opened, frame, running, lock, thread>>
loopv == <<nThreads, captured, tpc, tframe>>
locals == <<cframe, cid, ctarget, atAcq>>
hist == <<lastDone, writes, quiesced>>

\* Outcome of a call: what it returned or raised.  pre is, for start(),
\* whether it found the buffer running and, for read(), the encode argument.
Ret(o, k, p) == [op |-> o, kind |-> k, pre |-> p]
NoRet == Ret("none", "none", FALSE)

\* Thread.is_alive(): started and not yet finished
is_alive(t) == tpc[t] \notin {"unborn", "created", "dead"}
AliveThreads == {t \in Threads : is_alive(t)}
InStart == {c \in Callers : pc[c] \in {"s_set", "s_new", "s_start"}}

\* Lock.acquire() goes through only while the lock is free
CanAcquireNoLock(l) == TRUE
CanAcquire(l) == l = FALSE

\* ndarray.copy(): a new array with the same pixels
Copy(f) == [i \in DOMAIN f |-> f[i]]

\* Identity of array objects.  The capture source allocates one array per
\* grab, so the marker names the object; None is the one None object.
NoObj == 0 - 1
ArrayId(f) == IF f = None THEN NoObj ELSE f[1]

\* The object that frame = self.frame.copy() binds in caller c: copy()
\* allocates an array that is none of the arrays the source delivered.
CopyIdAlias(f, c) == ArrayId(f)
CopyId(f, c) == 0 - 1 - c

----------------------------------------------------------------------------
\* __init__: VideoCapture(index=0) may fail to open the camera and does not
\* raise; the first frame is read synchronously, and the grab may fail (it
\* does when the camera is not open)
StreamInit ==
    /\ opened \in BOOLEAN
    /\ frame \in IF opened THEN {Frame(InitialMarker), None} ELSE {None}
    /\ running = FALSE
    /\ lock = FALSE
    /\ thread = NoThread
    /\ nThreads = 0
    /\ captured = 0
    /\ tpc = [t \in Threads |-> "unborn"]
    /\ tframe = [t \in Threads |-> None]
    /\ pc = [c \in Callers |-> "idle"]
    /\ cframe = [c \in Callers |-> None]
    /\ cid = [c \in Callers |-> NoObj]
    /\ ctarget = [c \in Callers |-> NoThread]
    /\ atAcq = [c \in Callers |-> None]
    /\ lastDone = frame
    /\ writes = <<>>
    /\ quiesced = FALSE
    /\ last = NoRet

\* The state in which no WebcamStream is in use: the camera is not open
StreamAbsent == StreamInit /\ opened = FALSE

\* RealTimeScreenAnalyzer.__init__: an empty deque(maxlen=max_frames), an
\* empty queue.Queue(), both flags False and both thread fields None
NoData == [timestamp |-> 0, frame_id |-> 0]

AnalyzerConstructed ==
    /\ is_recording = FALSE
    /\ is_analyzing = FALSE
    /\ frame_buffer = <<>>
    /\ frame_queue = <<>>
    /\ a_shots = 0
    /\ cap_pc = "none"
    /\ cap_data = NoData
    /\ cap_slow = FALSE
    /\ an_pc = "none"
    /\ an_slow = FALSE
    /\ m_pc = "main"

\* No call of extract_frame_at_minute is in progress
NoInput == [exists |-> FALSE, openable |-> FALSE, fps |-> <<0, 1>>,
            total_frames |-> 0, readable |-> FALSE, minute |-> 1]

ExtractIdle ==
    /\ x_in = NoInput
    /\ x_pc = "idle"
    /\ x_cap = "none"
    /\ x_target = 0
    /\ x_pos = 0 - 1
    /\ x_saved = 0
    /\ x_result = "none"

Init == StreamInit /\ AnalyzerConstructed /\ ExtractIdle

----------------------------------------------------------------------------
\* Room for one more Thread object
CanCreate == nThreads + Cardinality({d \in Callers : pc[d] \in {"s_set", "s_new"}}) < MaxThreads

\* start(), line 47-48: if self.running: return self
StartCheckFallThrough(c) ==
    /\ pc[c] = "idle"
    /\ CanCreate
    /\ pc' = [pc EXCEPT ![c] = "s_set"]
    /\ last' = NoRet
    /\ quiesced' = FALSE
    /\ UNCHANGED <<shared, loopv, locals, lastDone, writes>>
    /\ UNCHANGED <<avars, xvars>>

StartCheck(c) ==
    /\ pc[c] = "idle"
    /\ running \/ CanCreate
    /\ IF running
         THEN /\ last' = Ret("start", "self", TRUE)
              /\ pc' = pc
         ELSE /\ pc' = [pc EXCEPT ![c] = "s_set"]
              /\ last' = NoRet
    /\ quiesced' = FALSE
    /\ UNCHANGED <<shared, loopv, locals, lastDone, writes>>
    /\ UNCHANGED <<avars, xvars>>

\* start(), line 50: self.running = True
StartSet(c) ==
    /\ pc[c] = "s_set"
    /\ running' = TRUE
    /\ pc' = [pc EXCEPT ![c] = "s_new"]
    /\ last' = NoRet
    /\ UNCHANGED <<opened, frame, lock, thread, loopv, locals, hist>>
    /\ UNCHANGED <<avars, xvars>>

\* start(), line 52: self.thread = Thread(target=self.update)
StartNew(c) ==
    /\ pc[c] = "s_new"
    /\ nThreads' = nThreads + 1
    /\ thread' = nThreads + 1
    /\ tpc' = [tpc EXCEPT ![nThreads + 1] = "created"]
    /\ pc' = [pc EXCEPT ![c] = "s_start"]
    /\ last' = NoRet
    /\ UNCHANGED <<opened, frame, running, lock, captured, tframe, locals, hist>>
    /\ UNCHANGED <<avars, xvars>>

\* start(), line 53-54: self.thread.start(); return self.  Thread.start()
\* raises RuntimeError on a Thread object that was started before.
StartThread(c) ==
    /\ pc[c] = "s_start"
    /\ IF tpc[thread] = "created"
         THEN /\ tpc' = [tpc EXCEPT ![thread] = "check"]
              /\ last' = Ret("start", "self", FALSE)
         ELSE /\ tpc' = tpc
              /\ last' = Ret("start", "RuntimeError", FALSE)
    /\ pc' = [pc EXCEPT ![c] = "idle"]
    /\ UNCHANGED <<shared, nThreads, captured, tframe, locals, hist>>
    /\ UNCHANGED <<avars, xvars>>

----------------------------------------------------------------------------
\* stop(), line 95: self.running = False
StopSet(c) ==
    /\ pc[c] = "idle"
    /\ running' = FALSE
    /\ pc' = [pc EXCEPT ![c] = "t_alive"]
    /\ last' = NoRet
    /\ UNCHANGED <<opened, frame, lock, thread, loopv, locals, hist>>
    /\ UNCHANGED <<avars, xvars>>

\* stop(), line 96: if self.thread.is_alive().  The attribute self.thread
\* exists only once start() has assigned it.
StopAlive(c) ==
    /\ pc[c] = "t_alive"
    /\ IF thread = NoThread
         THEN /\ last' = Ret("stop", "AttributeError", FALSE)
              /\ pc' = [pc EXCEPT ![c] = "idle"]
              /\ quiesced' = quiesced
         ELSE IF is_alive(thread)
                THEN /\ pc' = [pc EXCEPT ![c] = "t_join"]
                     /\ last' = NoRet
                     /\ quiesced' = quiesced
                ELSE /\ last' = Ret("stop", "ok", FALSE)
                     /\ pc' = [pc EXCEPT ![c] = "idle"]
                     /\ quiesced' = (InStart = {})
    /\ UNCHANGED <<shared, loopv, locals, lastDone, writes>>
    /\ UNCHANGED <<avars, xvars>>

\* stop(), line 97: self.thread.join() evaluates self.thread again;
\* Thread.join() raises RuntimeError on a Thread that was not started.
StopJoin(c) ==
    /\ pc[c] = "t_join"
    /\ IF tpc[thread] = "created"
         THEN /\ last' = Ret("stop", "RuntimeError", FALSE)
              /\ pc' = [pc EXCEPT ![c] = "idle"]
              /\ ctarget' = ctarget
         ELSE /\ ctarget' = [ctarget EXCEPT ![c] = thread]
              /\ pc' = [pc EXCEPT ![c] = "t_wait"]
              /\ last' = NoRet
    /\ UNCHANGED <<shared, loopv, cframe, cid, atAcq, hist>>
    /\ UNCHANGED <<avars, xvars>>

\* stop(), line 97: join() returns once the joined thread has ended
StopWait(c) ==
    /\ pc[c] = "t_wait"
    /\ tpc[ctarget[c]] = "dead"
    /\ last' = Ret("stop", "ok", FALSE)
    /\ pc' = [pc EXCEPT ![c] = "idle"]
    /\ ctarget' = [ctarget EXCEPT ![c] = NoThread]
    /\ quiesced' = (InStart = {})
    /\ UNCHANGED <<shared, loopv, cframe, cid, atAcq, lastDone, writes>>
    /\ UNCHANGED <<avars, xvars>>

----------------------------------------------------------------------------
\* read() is called: the caller is at line 80, about to take the lock
ReadCall(c) ==
    /\ pc[c] = "idle"
    /\ pc' = [pc EXCEPT ![c] = "r_acquire"]
    /\ last' = NoRet
    /\ UNCHANGED <<shared, loopv, locals, hist>>
    /\ UNCHANGED <<avars, xvars>>

\* read(), line 80-81: self.lock.acquire(); frame = self.frame.copy().
\* None has no copy(): AttributeError leaves read() at once, and the
\* release of line 82 is not executed.
ReadAcquire(c) ==
    /\ pc[c] = "r_acquire"
    /\ CanAcquire(lock)
    /\ lock' = TRUE
    /\ IF frame = None
         THEN /\ last' = Ret("read", "AttributeError", FALSE)
              /\ pc' = [pc EXCEPT ![c] = "idle"]
              /\ UNCHANGED <<cframe, cid, atAcq>>
         ELSE /\ cframe' = [cframe EXCEPT ![c] = Copy(frame)]
              /\ cid' = [cid EXCEPT ![c] = CopyId(frame, c)]
              /\ atAcq' = [atAcq EXCEPT ![c] = lastDone]
              /\ pc' = [pc EXCEPT ![c] = "r_release"]
              /\ last' = NoRet
    /\ UNCHANGED <<opened, frame, running, thread, loopv, ctarget, hist>>
    /\ UNCHANGED <<avars, xvars>>

\* read(), line 82-88: self.lock.release(), then return the copy, or its
\* JPEG/Base64 encoding when encode is set
ReadRelease(c) ==
    /\ pc[c] = "r_release"
    /\ lock' = FALSE
    /\ \E encode \in BOOLEAN :
         last' = Ret("read", IF encode THEN "encoded" ELSE "frame", encode)
    /\ cframe' = [cframe EXCEPT ![c] = None]
    /\ cid' = [cid EXCEPT ![c] = NoObj]
    /\ atAcq' = [atAcq EXCEPT ![c] = None]
    /\ pc' = [pc EXCEPT ![c] = "idle"]
    /\ UNCHANGED <<opened, frame, running, thread, loopv, ctarget, hist>>
    /\ UNCHANGED <<avars, xvars>>

----------------------------------------------------------------------------
\* update(), line 61-62: while self.running: _, frame = self.stream.read().
\* The source delivers its next frame, or fails and delivers None; it
\* fails when the camera is not open, and from MaxFrames frames on.
UpdateCheck(t) ==
    /\ tpc[t] = "check"
    /\ IF running
         THEN /\ \E ok \in BOOLEAN :
                   IF ok /\ opened /\ captured < MaxFrames
                     THEN /\ captured' = captured + 1
                          /\ tframe' = [tframe EXCEPT ![t] = Frame(captured + 1)]
                     ELSE /\ captured' = captured
                          /\ tframe' = [tframe EXCEPT ![t] = None]
              /\ tpc' = [tpc EXCEPT ![t] = "acquire"]
         ELSE /\ tpc' = [tpc EXCEPT ![t] = "dead"]
              /\ UNCHANGED <<captured, tframe>>
    /\ last' = NoRet
    /\ UNCHANGED <<shared, nThreads, pc, locals, hist>>
    /\ UNCHANGED <<avars, xvars>>

\* update(), line 64-65: self.lock.acquire(); self.frame = frame
UpdateAcquireNoLock(t) ==
    /\ tpc[t] = "acquire"
    /\ lock' = TRUE
    /\ frame' = tframe[t]
    /\ writes' = IF tframe[t] = None THEN writes ELSE Append(writes, tframe[t][1])
    /\ tpc' = [tpc EXCEPT ![t] = "release"]
    /\ last' = NoRet
    /\ UNCHANGED <<opened, running, thread, nThreads, captured, tframe,
                   pc, locals, lastDone, quiesced>>
    /\ UNCHANGED <<avars, xvars>>

UpdateAcquire(t) ==
    /\ tpc[t] = "acquire"
    /\ CanAcquire(lock)
    /\ lock' = TRUE
    /\ frame' = tframe[t]
    /\ writes' = IF tframe[t] = None THEN writes ELSE Append(writes, tframe[t][1])
    /\ tpc' = [tpc EXCEPT ![t] = "release"]
    /\ last' = NoRet
    /\ UNCHANGED <<opened, running, thread, nThreads, captured, tframe,
                   pc, locals, lastDone, quiesced>>
    /\ UNCHANGED <<avars, xvars>>

\* update(), line 66: self.lock.release()
UpdateRelease(t) ==
    /\ tpc[t] = "release"
    /\ lock' = FALSE
    /\ lastDone' = tframe[t]
    /\ tframe' = [tframe EXCEPT ![t] = None]
    /\ tpc' = [tpc EXCEPT ![t] = "check"]
    /\ last' = NoRet
    /\ UNCHANGED <<opened, frame, running, thread, nThreads, captured,
                   pc, locals, writes, quiesced>>
    /\ UNCHANGED <<avars, xvars>>

----------------------------------------------------------------------------
Next ==
    \/ \E c \in Callers : StartCheck(c)
    \/ \E c \in Callers : StartSet(c)
    \/ \E c \in Callers : StartNew(c)
    \/ \E c \in Callers : StartThread(c)
    \/ \E c \in Callers : StopSet(c)
    \/ \E c \in Callers : StopAlive(c)
    \/ \E c \in Callers : StopJoin(c)
    \/ \E c \in Callers : StopWait(c)
    \/ \E c \in Callers : ReadCall(c)
    \/ \E c \in Callers : ReadAcquire(c)
    \/ \E c \in Callers : ReadRelease(c)
    \/ \E t \in Threads : UpdateCheck(t)
    \/ \E t \in Threads : UpdateAcquire(t)
    \/ \E t \in Threads : UpdateRelease(t)

Spec == Init /\ [][Next]_vars

\* Scheduling: a call that was made, and the capture loop, keep taking
\* steps; whoever waits for the lock gets it if it is free again and
\* again.  Nothing obliges a caller to make a call.
Fairness ==
    /\ \A c \in Callers :
         /\ WF_vars(StartSet(c)) /\ WF_vars(StartNew(c)) /\ WF_vars(StartThread(c))
         /\ WF_vars(StopAlive(c)) /\ WF_vars(StopJoin(c)) /\ WF_vars(StopWait(c))
         /\ SF_vars(ReadAcquire(c)) /\ WF_vars(ReadRelease(c))
    /\ \A t \in Threads :
         /\ WF_vars(UpdateCheck(t)) /\ SF_vars(UpdateAcquire(t))
         /\ WF_vars(UpdateRelease(t))

FairSpec == Spec /\ Fairness

TypeOK ==
    /\ running \in BOOLEAN /\ lock \in BOOLEAN
    /\ thread \in 0..MaxThreads /\ nThreads \in 0..MaxThreads
    /\ captured \in 0..MaxFrames
    /\ frame \in {None} \cup {Frame(m) : m \in 0..MaxFrames}
    /\ \A t \in Threads :
         tpc[t] \in {"unborn", "created", "check", "acquire", "release", "dead"}
    /\ \A c \in Callers :
         pc[c] \in {"idle", "s_set", "s_new", "s_start", "t_alive", "t_join",
                    "t_wait", "r_acquire", "r_release"}

----------------------------------------------------------------------------
\* Who is inside a critical section of the frame lock
ReaderCS == {c \in Callers : pc[c] = "r_release"}
WriterCS == {t \in Threads : tpc[t] = "release"}

\* The frames that were ever stored in self.frame
Written == {Frame(InitialMarker)} \cup {Frame(writes[i]) : i \in 1..Len(writes)}

\* The frame of the latest write that stored a frame
Newest == IF writes = <<>> THEN Frame(InitialMarker) ELSE Frame(writes[Len(writes)])

IsPrefix(s, t) == Len(s) <= Len(t) /\ \A i \in 1..Len(s) : s[i] = t[i]

\* C1: no torn reads. The write of self.frame and the copy made by read()
\* never overlap, and the frame a read() is about to return is, pixel for
\* pixel, the frame stored by one write (or the initial frame).
C1_NoTornReads ==
    /\ Cardinality(ReaderCS) + Cardinality(WriterCS) <= 1
    /\ \A c \in ReaderCS :
         /\ cframe[c] \in Written
         /\ cframe[c] = frame

\* A read() holds its copy of a frame the loop wrote while the loop, with
\* the next frame in hand, waits for the lock.
C1_Witness ==
    \E c \in Callers, t \in Threads :
        /\ pc[c] = "r_release" /\ cframe[c] = Frame(1)
        /\ tpc[t] = "acquire" /\ tframe[t] = Frame(2)

\* C2: once a stop() has returned, and until start() is called again,
\* nothing writes self.frame.
C2_NoWriteAfterStop == [][quiesced => frame' = frame]_vars

\* C3: a start() call on a running buffer does not get past the test of
\* line 47; it returns self, creates and starts no Thread and changes no
\* attribute of the buffer.
C3_StartIdempotent ==
    /\ [][\A c \in Callers : (running /\ pc[c] = "idle") => pc'[c] # "s_set"]_vars
    /\ [][(last'.op = "start" /\ last'.pre)
            => (last'.kind = "self" /\ UNCHANGED <<shared, loopv, pc>>)]_vars

\* start() was called a second time on a running buffer: it has returned
\* self and there is still the one capture loop of the first call.
C3_Witness ==
    /\ last = Ret("start", "self", TRUE)
    /\ nThreads = 1
    /\ AliveThreads = {1}

\* C4: single writer. At most one capture loop thread is alive.
C4_SingleWriter == Cardinality(AliveThreads) <= 1

\* C5: an iteration whose capture failed leaves self.frame as it was, the
\* last frame that was captured.
C5_FailedCaptureKeepsFrame ==
    [][\A t \in Threads :
         (tpc[t] = "acquire" /\ tframe[t] = None /\ tpc'[t] = "release")
            => frame' = frame]_vars

\* C6: a stop() on a buffer that is not running (no capture loop alive, no
\* start() under way) returns normally.
C6_StopWhenNotRunning ==
    (last.op = "stop" /\ AliveThreads = {} /\ InStart = {}) => last.kind = "ok"

\* C7: self.frame is a frame in every reachable state, and no read()
\* fails on it.
C7_FrameValid ==
    /\ frame # None
    /\ ~(last.op = "read" /\ last.kind = "AttributeError")

\* C8: the frame lock is held only by a read() or a loop iteration that
\* is inside its critical section and so goes on to release it.
C8_LockReleased == lock => (ReaderCS # {} \/ WriterCS # {})

\* C9: under fair scheduling, a stop() that found the capture loop alive
\* returns.
C9_StopReturns ==
    \A c \in Callers : (pc[c] \in {"t_join", "t_wait"}) ~> (pc[c] = "idle")

\* C10: latest-frame semantics. The frame a read() is about to return is
\* the frame of the last write whose critical section ended before the
\* read() took the lock, and it is the newest entry of the write history;
\* that history only grows at its end, so a later read() never returns a
\* frame written before the frame of an earlier read().
C10_LatestFrame ==
    /\ [](\A c \in ReaderCS : cframe[c] = atAcq[c] /\ cframe[c] = Newest)
    /\ [][IsPrefix(writes, writes')]_vars

\* Writes 1 and 2 are complete and a read() holds a copy of frame 2.
C10_Witness ==
    \E c \in Callers :
        /\ pc[c] = "r_release" /\ cframe[c] = Frame(2)
        /\ writes = <<1, 2>> /\ lastDone = Frame(2)

\* C11: a buffer exists only if its capture source was opened; a source
\* that cannot be opened makes the constructor raise, so that no state of a
\* constructed buffer has a closed source.
C11_OpenFailureRaises == opened

\* C15: read() has no effect on the buffer and returns an independent copy.
\* No step of read() changes self.frame or self.running, and the array it
\* is about to return has the pixels of self.frame but is another object
\* than the array in self.frame and than any array the loop has in hand,
\* so no write of the loop can reach it.
C15_ReadIndependent ==
    /\ [](\A c \in ReaderCS :
            /\ cframe[c] = frame
            /\ cid[c] # ArrayId(frame)
            /\ \A t \in Threads : cid[c] # ArrayId(tframe[t]))
    /\ [][\A c \in Callers :
            (pc'[c] # pc[c] /\ (pc'[c] = "r_acquire" \/ pc[c] \in {"r_acquire", "r_release"}))
               => (frame' = frame /\ running' = running)]_vars

\* A read() has just returned its copy: the buffer still runs and holds
\* frame 1, and the loop is about to store frame 2.
C15_Witness ==
    /\ last = Ret("read", "frame", FALSE)
    /\ running /\ frame = Frame(1)
    /\ \E t \in Threads : tpc[t] = "acquire" /\ tframe[t] = Frame(2)

----------------------------------------------------------------------------
\* RealTimeScreenAnalyzer (src/main.py): main() runs it in mode 1
\* (start_analysis: capture thread and analysis thread) or in mode 2 (capture
\* thread only, interactive queries), and ends either with stop_analysis().

\* Model bounds: the constructor's max_frames, and the number of screenshots
\* that succeed in one run
max_frames == 2
MaxShots == 4

\* self.frame_queue = queue.Queue(): no maxsize is passed, the default is 0
QueueMaxsize == 0

\* queue.Queue.full(): a queue whose maxsize is not positive is never full
QueueFull(q) == QueueMaxsize > 0 /\ Len(q) >= QueueMaxsize

\* collections.deque(maxlen=n).append(x): when the deque already holds n
\* items, the item at the opposite end (the oldest) is discarded
DequeAppendUnbounded(q, x, maxlen) == Append(q, x)
DequeAppend(q, x, maxlen) ==
    IF maxlen = 0 THEN q
    ELSE IF Len(q) >= maxlen THEN Append(Tail(q), x)
    ELSE Append(q, x)

\* threading.Thread.is_alive() of capture_thread and of analysis_thread
CapAlive == cap_pc \notin {"none", "created", "dead"}
AnAlive == an_pc \notin {"none", "created", "dead"}

\* main(), choice "1": start_analysis() up to the creation of both threads.
\* It returns at once when is_recording is already set.
Main1Begin ==
    /\ m_pc = "main"
    /\ IF is_recording
         THEN /\ m_pc' = "returned"
              /\ UNCHANGED <<is_recording, is_analyzing, cap_pc, an_pc>>
         ELSE /\ is_recording' = TRUE
              /\ is_analyzing' = TRUE
              /\ cap_pc' = "created"
              /\ an_pc' = "created"
              /\ m_pc' = "sa_start_cap"
    /\ UNCHANGED <<frame_buffer, frame_queue, a_shots, cap_data, cap_slow, an_slow>>
    /\ UNCHANGED <<svars, xvars>>

\* self.capture_thread.start()
SaStartCapture ==
    /\ m_pc = "sa_start_cap"
    /\ cap_pc' = "check"
    /\ m_pc' = "sa_start_an"
    /\ UNCHANGED <<is_recording, is_analyzing, frame_buffer, frame_queue, a_shots,
                   cap_data, cap_slow, an_pc, an_slow>>
    /\ UNCHANGED <<svars, xvars>>

\* self.analysis_thread.start(); the main thread then waits in
\* while self.is_recording: time.sleep(1)
SaStartAnalysis ==
    /\ m_pc = "sa_start_an"
    /\ an_pc' = "check"
    /\ m_pc' = "sa_wait"
    /\ UNCHANGED <<is_recording, is_analyzing, frame_buffer, frame_queue, a_shots,
                   cap_pc, cap_data, cap_slow, an_slow>>
    /\ UNCHANGED <<svars, xvars>>

\* KeyboardInterrupt in the wait loop: except KeyboardInterrupt calls
\* self.stop_analysis()
SaInterrupt ==
    /\ m_pc = "sa_wait"
    /\ m_pc' = "st_set"
    /\ UNCHANGED <<is_recording, is_analyzing, frame_buffer, frame_queue, a_shots,
                   cap_pc, cap_data, cap_slow, an_pc, an_slow>>
    /\ UNCHANGED <<svars, xvars>>

\* main(), choice "2": analyzer.is_recording = True and the capture thread
\* is created; no analysis thread
Main2Begin ==
    /\ m_pc = "main"
    /\ is_recording' = TRUE
    /\ cap_pc' = "created"
    /\ m_pc' = "m2_start"
    /\ UNCHANGED <<is_analyzing, frame_buffer, frame_queue, a_shots,
                   cap_data, cap_slow, an_pc, an_slow>>
    /\ UNCHANGED <<svars, xvars>>

\* analyzer.capture_thread.start()
M2StartCapture ==
    /\ m_pc = "m2_start"
    /\ cap_pc' = "check"
    /\ m_pc' = "m2_wait"
    /\ UNCHANGED <<is_recording, is_analyzing, frame_buffer, frame_queue, a_shots,
                   cap_data, cap_slow, an_pc, an_slow>>
    /\ UNCHANGED <<svars, xvars>>

\* A question is entered: interactive_query(question) is called
M2Ask ==
    /\ m_pc = "m2_wait"
    /\ m_pc' = "m2_query"
    /\ UNCHANGED <<is_recording, is_analyzing, frame_buffer, frame_queue, a_shots,
                   cap_pc, cap_data, cap_slow, an_pc, an_slow>>
    /\ UNCHANGED <<svars, xvars>>

\* interactive_query reads list(self.frame_buffer) and returns an answer
M2Query ==
    /\ m_pc = "m2_query"
    /\ m_pc' = "m2_wait"
    /\ UNCHANGED <<is_recording, is_analyzing, frame_buffer, frame_queue, a_shots,
                   cap_pc, cap_data, cap_slow, an_pc, an_slow>>
    /\ UNCHANGED <<svars, xvars>>

\* 'quit' or KeyboardInterrupt: finally: analyzer.stop_analysis()
M2Quit ==
    /\ m_pc \in {"m2_wait", "m2_query"}
    /\ m_pc' = "st_set"
    /\ UNCHANGED <<is_recording, is_analyzing, frame_buffer, frame_queue, a_shots,
                   cap_pc, cap_data, cap_slow, an_pc, an_slow>>
    /\ UNCHANGED <<svars, xvars>>

\* stop_analysis: self.is_recording = False; self.is_analyzing = False
StopSetFlags ==
    /\ m_pc = "st_set"
    /\ is_recording' = FALSE
    /\ is_analyzing' = FALSE
    /\ m_pc' = "st_cap"
    /\ UNCHANGED <<frame_buffer, frame_queue, a_shots,
                   cap_pc, cap_data, cap_slow, an_pc, an_slow>>
    /\ UNCHANGED <<svars, xvars>>

\* if self.capture_thread and self.capture_thread.is_alive():
\*     self.capture_thread.join(timeout=5)
\* The join returns when the thread has exited, or after 5 seconds while the
\* thread is still in a step that lasts longer.
StopJoinCapture ==
    /\ m_pc = "st_cap"
    /\ ~CapAlive \/ cap_slow
    /\ m_pc' = "st_an"
    /\ UNCHANGED <<is_recording, is_analyzing, frame_buffer, frame_queue, a_shots,
                   cap_pc, cap_data, cap_slow, an_pc, an_slow>>
    /\ UNCHANGED <<svars, xvars>>

\* if self.analysis_thread and self.analysis_thread.is_alive():
\*     self.analysis_thread.join(timeout=5)
\* and stop_analysis returns.
StopJoinAnalysis ==
    /\ m_pc = "st_an"
    /\ ~AnAlive \/ an_slow
    /\ m_pc' = "stopped"
    /\ UNCHANGED <<is_recording, is_analyzing, frame_buffer, frame_queue, a_shots,
                   cap_pc, cap_data, cap_slow, an_pc, an_slow>>
    /\ UNCHANGED <<svars, xvars>>

\* _capture_frames: while self.is_recording, once frame_interval has elapsed
\* the thread enters the try block; the screenshot it starts may last longer
\* than a join timeout
CapCheck ==
    /\ cap_pc = "check"
    /\ IF is_recording
         THEN /\ cap_pc' = "shot"
              /\ cap_slow' \in BOOLEAN
         ELSE /\ cap_pc' = "dead"
              /\ cap_slow' = FALSE
    /\ UNCHANGED <<is_recording, is_analyzing, frame_buffer, frame_queue, a_shots,
                   cap_data, an_pc, an_slow, m_pc>>
    /\ UNCHANGED <<svars, xvars>>

\* pyautogui.screenshot() and the conversion: either raise (except Exception
\* prints and the loop goes on) or frame_data is built, with the next
\* timestamp and frame_id = len(self.frame_buffer)
CapShot ==
    /\ cap_pc = "shot"
    /\ \E ok \in BOOLEAN :
         IF ok /\ a_shots < MaxShots
           THEN /\ a_shots' = a_shots + 1
                /\ cap_data' = [timestamp |-> a_shots + 1,
                                frame_id |-> Len(frame_buffer)]
                /\ cap_pc' = "append"
           ELSE /\ cap_pc' = "check"
                /\ UNCHANGED <<a_shots, cap_data>>
    /\ cap_slow' = FALSE
    /\ UNCHANGED <<is_recording, is_analyzing, frame_buffer, frame_queue,
                   an_pc, an_slow, m_pc>>
    /\ UNCHANGED <<svars, xvars>>

\* self.frame_buffer.append(frame_data)
CapAppend ==
    /\ cap_pc = "append"
    /\ frame_buffer' = DequeAppend(frame_buffer, cap_data, max_frames)
    /\ cap_pc' = "put"
    /\ UNCHANGED <<is_recording, is_analyzing, frame_queue, a_shots,
                   cap_data, cap_slow, an_pc, an_slow, m_pc>>
    /\ UNCHANGED <<svars, xvars>>

\* if not self.frame_queue.full(): self.frame_queue.put(frame_data)
\* then last_capture_time is updated and the loop sleeps
CapPut ==
    /\ cap_pc = "put"
    /\ frame_queue' = IF QueueFull(frame_queue) THEN frame_queue
                      ELSE Append(frame_queue, cap_data)
    /\ cap_data' = NoData
    /\ cap_pc' = "check"
    /\ UNCHANGED <<is_recording, is_analyzing, frame_buffer, a_shots,
                   cap_slow, an_pc, an_slow, m_pc>>
    /\ UNCHANGED <<svars, xvars>>

\* _analyze_frames: while self.is_analyzing, once analysis_interval has
\* elapsed and the buffer is not empty, _perform_analysis() is called; the
\* analysis may last longer than a join timeout
AnCheck ==
    /\ an_pc = "check"
    /\ IF is_analyzing
         THEN /\ Len(frame_buffer) > 0
              /\ an_pc' = "analyze"
              /\ an_slow' \in BOOLEAN
         ELSE /\ an_pc' = "dead"
              /\ an_slow' = FALSE
    /\ UNCHANGED <<is_recording, is_analyzing, frame_buffer, frame_queue, a_shots,
                   cap_pc, cap_data, cap_slow, m_pc>>
    /\ UNCHANGED <<svars, xvars>>

\* _perform_analysis reads the most recent frames of frame_buffer and
\* returns; the loop sleeps one second
AnPerform ==
    /\ an_pc = "analyze"
    /\ an_pc' = "check"
    /\ an_slow' = FALSE
    /\ UNCHANGED <<is_recording, is_analyzing, frame_buffer, frame_queue, a_shots,
                   cap_pc, cap_data, cap_slow, m_pc>>
    /\ UNCHANGED <<svars, xvars>>

AnalyzerInit == StreamAbsent /\ AnalyzerConstructed /\ ExtractIdle

AnalyzerNext ==
    \/ Main1Begin
    \/ SaStartCapture
    \/ SaStartAnalysis
    \/ SaInterrupt
    \/ Main2Begin
    \/ M2StartCapture
    \/ M2Ask
    \/ M2Query
    \/ M2Quit
    \/ StopSetFlags
    \/ StopJoinCapture
    \/ StopJoinAnalysis
    \/ CapCheck
    \/ CapShot
    \/ CapAppend
    \/ CapPut
    \/ AnCheck
    \/ AnPerform

AnalyzerSpec == AnalyzerInit /\ [][AnalyzerNext]_vars

\* Number of frames appended to frame_buffer so far
Appended == a_shots - (IF cap_pc = "append" THEN 1 ELSE 0)

Min(a, b) == IF a <= b THEN a ELSE b

\* C12: once stop_analysis() has returned, the capture thread and the
\* analysis thread have both exited, and no frame is appended to
\* frame_buffer or to frame_queue afterwards, however long the capture or
\* analysis step in flight lasts.
C12_NoWriterAfterStop ==
    /\ [](m_pc = "stopped" => (~CapAlive /\ ~AnAlive))
    /\ [][m_pc = "stopped" =>
            (frame_buffer' = frame_buffer /\ frame_queue' = frame_queue)]_vars

\* C13: frames are dropped from the analysis queue when it is full, so the
\* number of queued frames stays bounded: the queue never holds every frame
\* of a run of MaxShots captures.
C13_QueueBounded == Len(frame_queue) < MaxShots

\* C14: frame_buffer never holds more than max_frames frames, and it holds
\* exactly the most recent appended captures, oldest first, in capture
\* order: an append to a full buffer discards the oldest frame only.
C14_BufferBounded ==
    /\ Len(frame_buffer) <= max_frames
    /\ Len(frame_buffer) = Min(Appended, max_frames)
    /\ \A i \in 1..Len(frame_buffer) :
         frame_buffer[i].timestamp = Appended - Len(frame_buffer) + i

\* A full buffer whose oldest captures have been evicted
C14_Witness ==
    /\ Len(frame_buffer) = max_frames
    /\ Appended > max_frames
    /\ frame_buffer[1].timestamp = Appended - max_frames + 1
    /\ cap_pc = "put"

----------------------------------------------------------------------------
\* ScreenRecorder.extract_frame_at_minute (src/screen_recorder.py), called
\* once per minute by extract_from_existing (src/example_usage.py), which
\* catches every Exception the call raises.

\* Model bounds: the largest frame count of a video, and the largest minute
MaxTotal == 5
MaxMinute == 2

\* target_second = (minute - 1) * 60 + 30
SecondsPerMinute == 60
MidSecond == 30

\* Frame rates cap.get(cv2.CAP_PROP_FPS) reports, as fractions <<num, den>>;
\* a container without rate information reports 0
Rates == {<<0, 1>>, <<1, 20>>, <<1, 10>>}

\* The inputs of one call: whether video_path exists, whether OpenCV can
\* open it, its frame rate and frame count, whether the frame at the target
\* position can be decoded, and the minute asked for
Inputs ==
    [exists : BOOLEAN, openable : BOOLEAN, fps : Rates,
     total_frames : 0..MaxTotal, readable : BOOLEAN, minute : 1..MaxMinute]

\* target_frame = int(target_second * fps)
TargetFrame(minute, fps) ==
    (((minute - 1) * SecondsPerMinute + MidSecond) * fps[1]) \div fps[2]

\* if not os.path.exists(video_path): raise FileNotFoundError
XExists ==
    /\ x_pc = "exists"
    /\ IF x_in.exists
         THEN /\ x_pc' = "open"
              /\ UNCHANGED x_result
         ELSE /\ x_pc' = "exit"
              /\ x_result' = "FileNotFoundError"
    /\ UNCHANGED <<x_in, x_cap, x_target, x_pos, x_saved>>
    /\ UNCHANGED <<svars, avars>>

\* cap = cv2.VideoCapture(video_path)
\* if not cap.isOpened(): raise ValueError
XOpen ==
    /\ x_pc = "open"
    /\ IF x_in.openable
         THEN /\ x_cap' = "open"
              /\ x_pc' = "info"
              /\ UNCHANGED x_result
         ELSE /\ x_cap' = "closed"
              /\ x_pc' = "exit"
              /\ x_result' = "ValueError"
    /\ UNCHANGED <<x_in, x_target, x_pos, x_saved>>
    /\ UNCHANGED <<svars, avars>>

\* fps, total_frames, duration_seconds = total_frames / fps: the division
\* raises ZeroDivisionError when fps is 0
XInfo ==
    /\ x_pc = "info"
    /\ IF x_in.fps[1] = 0
         THEN /\ x_pc' = "exit"
              /\ x_result' = "ZeroDivisionError"
         ELSE /\ x_pc' = "target"
              /\ UNCHANGED x_result
    /\ UNCHANGED <<x_in, x_cap, x_target, x_pos, x_saved>>
    /\ UNCHANGED <<svars, avars>>

\* target_frame is computed;
\* if target_frame >= total_frames: raise ValueError
XTarget ==
    /\ x_pc = "target"
    /\ x_target' = TargetFrame(x_in.minute, x_in.fps)
    /\ IF x_target' >= x_in.total_frames
         THEN /\ x_pc' = "exit"
              /\ x_result' = "ValueError"
         ELSE /\ x_pc' = "read"
              /\ UNCHANGED x_result
    /\ UNCHANGED <<x_in, x_cap, x_pos, x_saved>>
    /\ UNCHANGED <<svars, avars>>

\* cap.set(cv2.CAP_PROP_POS_FRAMES, target_frame); ret, frame = cap.read();
\* cap.release(); if not ret: raise ValueError
XRead ==
    /\ x_pc = "read"
    /\ x_cap' = "released"
    /\ IF x_in.readable
         THEN /\ x_pos' = x_target
              /\ x_pc' = "save"
              /\ UNCHANGED x_result
         ELSE /\ x_pos' = 0 - 1
              /\ x_pc' = "exit"
              /\ x_result' = "ValueError"
    /\ UNCHANGED <<x_in, x_target, x_saved>>
    /\ UNCHANGED <<svars, avars>>

\* cv2.imwrite(screenshot_path, frame); return screenshot_path
XSave ==
    /\ x_pc = "save"
    /\ x_saved' = x_saved + 1
    /\ x_result' = "path"
    /\ x_pc' = "exit"
    /\ UNCHANGED <<x_in, x_cap, x_target, x_pos>>
    /\ UNCHANGED <<svars, avars>>

\* A call extract_frame_at_minute(video_path, minute) has been entered
ExtractInit ==
    /\ StreamAbsent
    /\ AnalyzerConstructed
    /\ x_in \in Inputs
    /\ x_pc = "exists"
    /\ x_cap = "none"
    /\ x_target = 0
    /\ x_pos = 0 - 1
    /\ x_saved = 0
    /\ x_result = "none"

ExtractNext ==
    \/ XExists
    \/ XOpen
    \/ XInfo
    \/ XTarget
    \/ XRead
    \/ XSave

ExtractSpec == ExtractInit /\ [][ExtractNext]_vars

\* C16: when extract_frame_at_minute has returned or raised, the video
\* handle it opened has been released; a returned path means the frame
\* decoded is number floor(((minute-1)*60+30)*fps), below total_frames, and
\* one screenshot was written; on an openable video whose frame count that
\* index reaches, the call raised ValueError and wrote no screenshot.
C16_ExtractContract ==
    x_pc = "exit" =>
        /\ x_cap # "open"
        /\ x_result = "path" =>
              /\ x_pos = TargetFrame(x_in.minute, x_in.fps)
              /\ x_pos < x_in.total_frames
              /\ x_saved = 1
        /\ (x_in.exists /\ x_in.openable
              /\ TargetFrame(x_in.minute, x_in.fps) >= x_in.total_frames) =>
              (x_result = "ValueError" /\ x_saved = 0)

============================================================================
